---- MODULE Spec2Model ----
(***************************************************************************)
(* CRANE GUARD, unit A (anchor): the safety evaluation engine of           *)
(* anchor_anticoll.ino.  Two FreeRTOS tasks share the globals sys, stats,  *)
(* history: loop() runs checkSafetyAndRelays(), uwb_task() accepts ranging *)
(* samples.  Distances are whole centimetres, times are milliseconds of    *)
(* millis(), levels are the integers of the source (0 Safe, 1 Warn,        *)
(* 2 Stop, 3 CommLoss).                                                    *)
(***************************************************************************)
EXTENDS Integers, Sequences, FiniteSets, TLC

\* ---------------------------------------------------------------- constants
WATCHDOG_MS == 1000
HYSTERESIS_CM == 20
MAX_LOG_EVENTS == 50
HEARTBEAT_MS == 500
LQ_FULL_MS == 100
LQ_ZERO_MS == 2000
FLOOR_CM == 50
DEFAULT_STOP_CM == 500
DEFAULT_WARN_CM == 1500
COIL_NONE == 255
PKT_TYPE == 170
\* delay(500) of the /save handler before ESP.restart()
SAVE_DELAY_MS == 500
\* millis() when loop() first runs: the delays of setup() after the UWB
\* task is created (sendAT 2000, delay 1000, sendAT 1000 x3, sendAT 2000)
SETUP_MS == 8000
\* unsigned long is 32 bits wide on the ESP32: a - b with a < b wraps to
\* 2^32 - (b - a), and millis() returns to 0 after 2^32 - 1.  The model
\* checker's integers end at 2^31 - 1, so the unsigned long of the model ends
\* at WRAP_TOP and its arithmetic is modulo WRAP_TOP + 1: a wrapped
\* difference is above every threshold it is compared with, and the clock
\* restarts from 0, exactly as with the 32-bit values.
WRAP_TOP == 2147483647

\* ------------------------------------------------------------------- bounds
\* Spec, SpecSeq: the clock runs from SETUP_MS to SETUP_MS + Horizon
Horizon == 1500
\* Spec: no tick starts once this many events have been logged
MaxLog == 2
\* SpecSeq: no tick starts once this many events have been logged
SeqLog == 3
\* SpecLink: the elapsed times 0 .. MaxElapsed are all evaluated
MaxElapsed == 2100
\* SpecLink: milliseconds the clock may advance after boot
LinkHorizon == 2
\* SpecExample: number of samples in a script
ScriptLen == 4
\* SpecSave: no tick starts once this many events have been logged since boot
SaveLog == 1
\* SpecSend: no tick starts once this many events have been logged
SendLog == 2
\* SpecSlice: the clock runs from SETUP_MS to SETUP_MS + SliceMax
SliceMax == 1
\* SpecWrap: the clock is followed from WrapLead ms before millis() wraps
WrapLead == 1000
\* SpecLog: no tick starts once logEvent has written this many entries
MaxAppends == 52

\* ------------------------------------------------------------------- inputs
\* amounts by which the clock advances between two steps of the tasks
TimeSteps == {500}
\* values parsed from a ranging frame (0: the module's reading on failure)
Samples == {0, 480, 520, 1520}
\* threshold pairs <<stop, warn>> found in NVS by loadConfig
Stored == {<<500, 1500>>, <<49, 1500>>, <<500, 0>>}
\* SpecExample: the distances a script is made of
ExSamples == {480, 520, 600, 1600}
\* SpecExample: delays between a sample and the tick that evaluates it
ExDelays == {0, 1000}
\* SpecLink: the samples one of which was accepted while setup() ran
LinkSamples == {600}
\* SpecLog: the samples of a crane that moves in and out of the stop zone
LogSamples == {480, 1520}
\* SpecLog: milliseconds from a tick to the next accepted sample
LogSteps == {1000}
\* SpecFrame: the lines the ranging module's serial port delivers.  head is
\* the start of the line, marker tells whether "range:(" follows in it, text
\* is what comes after the marker.  The text 0.1 is not among them: as a
\* float it lies above the double 0.1 of line 419, as a decimal it does not.
Frames ==
  { [head |-> "AT+RANGE=", marker |-> TRUE, text |-> <<"4", "8", "0", ",">>],
    [head |-> "AT+RANGE=", marker |-> TRUE, text |-> <<"5", "0", "0", ")">>],
    [head |-> "AT+RANGE=", marker |-> TRUE, text |-> <<"0", ",">>],
    [head |-> "AT+RANGE=", marker |-> TRUE, text |-> <<"0", ".", "0", "5", ",">>],
    [head |-> "AT+RANGE=", marker |-> TRUE, text |-> <<"-", "4", "8", "0", ",">>],
    [head |-> "AT+RANGE=", marker |-> TRUE, text |-> <<"4", "8">>],
    [head |-> "AT+RANGE=", marker |-> TRUE, text |-> <<"4", "8", "0", "x">>],
    [head |-> "AT+RANGE=", marker |-> TRUE, text |-> <<"x", "4", "8", "0">>],
    [head |-> "AT+RANGE=", marker |-> TRUE, text |-> <<>>],
    [head |-> "AT+RANGE=", marker |-> FALSE, text |-> <<>>],
    [head |-> "OK", marker |-> FALSE, text |-> <<>>],
    [head |-> "OK", marker |-> TRUE, text |-> <<"4", "8", "0", ",">>] }
\* SpecSave: a parameter of the POST request, <<>> when the request has none
SaveParams == {<<>>, <<49>>, <<50>>, <<600>>}

VARIABLES
  now,            \* millis()
  sys,            \* SafetyState sys
  stats,          \* Statistics stats
  cfg,            \* Config cfg (the two limits)
  history,        \* EventLog history[MAX_LOG_EVENTS]
  logHead,        \* int logHead
  lastCoilStatus, \* static uint8_t lastCoilStatus
  lastModbusTime, \* static unsigned long lastModbusTime
  outgoingData,   \* packet_t outgoingData
  air,            \* the packet last handed to esp_now_send, <<>> if none
  loopT,          \* the evaluation task: position and locals of the tick
  uwbT,           \* the ingest task: position and local d
  paired,         \* history: distance of the sample that wrote last_packet_ms
  hyst,           \* history: zones held since the last release distance
  dwell,          \* history: the current run of ticks that ended in Stop
  quiet,          \* history: the current period without an accepted sample
  ex,             \* history: script and levels of a scripted run
  saveT,          \* the /save handler: position and the time of its reply
  uwbLine,        \* String b of uwb_task: the line it took last
  tx,             \* history: calls of esp_now_send since the filter last passed
  appended        \* history: every entry logEvent has written, in order

vars == <<now, sys, stats, cfg, history, logHead, lastCoilStatus,
          lastModbusTime, outgoingData, air, loopT, uwbT, paired, hyst,
          dwell, quiet, ex, saveT, uwbLine,
          tx, appended>>

\* ------------------------------------------------------------ pure helpers
Sub32(a, b) == IF a >= b THEN a - b ELSE (WRAP_TOP - (b - a)) + 1

\* millis() dt ms after it returned a
Add32(a, dt) == IF a > WRAP_TOP - dt THEN (a - (WRAP_TOP - dt)) - 1 ELSE a + dt

\* C integer division truncates toward zero (b > 0)
TruncDiv(a, b) == IF a >= 0 THEN a \div b ELSE -((-a) \div b)

\* mutant: the division rounds toward minus infinity
map_floor(x, in_min, in_max, out_min, out_max) ==
  ((x - in_min) * (out_max - out_min)) \div (in_max - in_min) + out_min

\* Arduino map(): (x - in_min) * (out_max - out_min) / (in_max - in_min) + out_min
map(x, in_min, in_max, out_min, out_max) ==
  TruncDiv((x - in_min) * (out_max - out_min), in_max - in_min) + out_min

getUptimeStr(ms) ==
  LET s == ms \div 1000
  IN  <<s \div 3600, (s \div 60) % 60, s % 60>>

EmptySlot == [timestamp |-> <<>>, distance |-> 0, zone |-> "", link_quality |-> 0]

\* mutant: logHead returns to 0 one slot early
logEventShort(h, head, dist, zoneName, quality, ms) ==
  [history |-> [h EXCEPT ![head] = [timestamp |-> getUptimeStr(ms),
                                    distance |-> dist,
                                    zone |-> zoneName,
                                    link_quality |-> quality]],
   logHead |-> IF head + 2 >= MAX_LOG_EVENTS THEN 0 ELSE head + 1]

logEvent(h, head, dist, zoneName, quality, ms) ==
  [history |-> [h EXCEPT ![head] = [timestamp |-> getUptimeStr(ms),
                                    distance |-> dist,
                                    zone |-> zoneName,
                                    link_quality |-> quality]],
   logHead |-> IF head + 1 >= MAX_LOG_EVENTS THEN 0 ELSE head + 1]

\* mutant: one value below the floor replaces both by the defaults
loadConfigBoth(stored) ==
  IF stored[1] < FLOOR_CM \/ stored[2] < FLOOR_CM
  THEN [limit_stop_cm |-> DEFAULT_STOP_CM, limit_warn_cm |-> DEFAULT_WARN_CM]
  ELSE [limit_stop_cm |-> stored[1], limit_warn_cm |-> stored[2]]

loadConfig(stored) ==
  [limit_stop_cm |-> IF stored[1] < FLOOR_CM THEN DEFAULT_STOP_CM ELSE stored[1],
   limit_warn_cm |-> IF stored[2] < FLOOR_CM THEN DEFAULT_WARN_CM ELSE stored[2]]

\* ---------------------------------------- checkSafetyAndRelays, by section
SignalLost(elapsed) == elapsed > WATCHDOG_MS

LinkQuality(elapsed) ==
  IF elapsed < LQ_FULL_MS THEN 100
  ELSE IF elapsed > LQ_ZERO_MS THEN 0
  ELSE map(elapsed, LQ_FULL_MS, LQ_ZERO_MS, 100, 0)

\* mutant: the margin is never added
ClassifyNoMargin(d, level, c) ==
  IF d <= c.limit_stop_cm THEN 2
  ELSE IF d <= c.limit_warn_cm THEN 1
  ELSE 0

\* mutant: the comparisons are strict
ClassifyStrict(d, level, c) ==
  LET eff_stop == c.limit_stop_cm + (IF level = 2 THEN HYSTERESIS_CM ELSE 0)
      eff_warn == c.limit_warn_cm + (IF level = 1 THEN HYSTERESIS_CM ELSE 0)
  IN  IF d < eff_stop THEN 2
      ELSE IF d < eff_warn THEN 1
      ELSE 0

Classify(d, level, c) ==
  LET eff_stop == c.limit_stop_cm + (IF level = 2 THEN HYSTERESIS_CM ELSE 0)
      eff_warn == c.limit_warn_cm + (IF level = 1 THEN HYSTERESIS_CM ELSE 0)
  IN  IF d <= eff_stop THEN 2
      ELSE IF d <= eff_warn THEN 1
      ELSE 0

StatusMsg(level) ==
  IF level = 2 THEN "DANGER: STOP"
  ELSE IF level = 1 THEN "WARNING: SLOW"
  ELSE "SAFE DISTANCE"

\* mutant: on signal loss the last known zone is kept as the level
FailsafeHoldZone(s) ==
  [s EXCEPT !.safety_level = s.last_known_zone, !.status_msg = "SIGNAL LOST"]

\* mutant: the failsafe records CommLoss as the last known zone
FailsafeRecordsZone(s) ==
  IF s.last_known_zone = 0
  THEN [s EXCEPT !.safety_level = 0, !.status_msg = "SAFE (NO LINK)"]
  ELSE [s EXCEPT !.safety_level = 3, !.status_msg = "SIGNAL LOST",
                 !.last_known_zone = 3]

Failsafe(s) ==
  IF s.last_known_zone = 0
  THEN [s EXCEPT !.safety_level = 0, !.status_msg = "SAFE (NO LINK)"]
  ELSE [s EXCEPT !.safety_level = 3, !.status_msg = "SIGNAL LOST"]

\* lines 334-361: d is the value of sys.distance_cm the comparison loads
Evaluate(s, signal_lost, d, c) ==
  IF ~signal_lost
  THEN LET level == Classify(d, s.safety_level, c)
       IN  [s EXCEPT !.safety_level = level,
                     !.status_msg = StatusMsg(level),
                     !.last_known_zone = level]
  ELSE Failsafe(s)

\* mutant: a signal loss is logged under the label of Safe
ZoneNameNoLoss(level) ==
  IF level = 2 THEN "DANGER"
  ELSE IF level = 1 THEN "WARN"
  ELSE "SAFE"

ZoneName(level) ==
  IF level = 3 THEN "LOSS"
  ELSE IF level = 2 THEN "DANGER"
  ELSE IF level = 1 THEN "WARN"
  ELSE "SAFE"

\* mutant: the counter of the level that is left is incremented
CountEntryLeft(st, level) ==
  [red_entries |-> IF st.last_level_stats = 2 THEN st.red_entries + 1
                   ELSE st.red_entries,
   yellow_entries |-> IF st.last_level_stats = 1 THEN st.yellow_entries + 1
                      ELSE st.yellow_entries,
   comm_drops |-> IF st.last_level_stats = 3 THEN st.comm_drops + 1
                  ELSE st.comm_drops,
   last_level_stats |-> level]

CountEntry(st, level) ==
  [red_entries |-> IF level = 2 THEN st.red_entries + 1 ELSE st.red_entries,
   yellow_entries |-> IF level = 1 THEN st.yellow_entries + 1 ELSE st.yellow_entries,
   comm_drops |-> IF level = 3 THEN st.comm_drops + 1 ELSE st.comm_drops,
   last_level_stats |-> level]

\* mutant: counted and logged on every tick outside Safe, not on a change
StatsAndLogEveryTick(s, st, h, head, ms) ==
  IF s.safety_level # 0
  THEN LET lg == logEvent(h, head, s.distance_cm, ZoneName(s.safety_level),
                          s.link_quality_pct, ms)
       IN  [stats |-> CountEntry(st, s.safety_level),
            history |-> lg.history, logHead |-> lg.logHead]
  ELSE [stats |-> [st EXCEPT !.last_level_stats = 0], history |-> h,
        logHead |-> head]

\* lines 363-382: ms is millis() when logEvent runs
StatsAndLog(s, st, h, head, ms) ==
  IF s.safety_level # st.last_level_stats
  THEN LET lg == IF s.distance_cm > 0 \/ s.safety_level = 3
                 THEN logEvent(h, head, s.distance_cm, ZoneName(s.safety_level),
                               s.link_quality_pct, ms)
                 ELSE [history |-> h, logHead |-> head]
       IN  [stats |-> CountEntry(st, s.safety_level),
            history |-> lg.history, logHead |-> lg.logHead]
  ELSE [stats |-> st, history |-> h, logHead |-> head]

\* mutant: a relay is switched on and never off
RelayOutputLatched(s) ==
  [s EXCEPT !.relay_red = (s.relay_red \/ s.safety_level = 2),
            !.relay_yellow = (s.relay_yellow \/ s.safety_level = 1),
            !.relay_green = (s.relay_green \/ s.safety_level = 0),
            !.relay_health = (s.relay_health \/ s.safety_level = 3)]

RelayOutput(s) ==
  [s EXCEPT !.relay_red = (s.safety_level = 2),
            !.relay_yellow = (s.safety_level = 1),
            !.relay_green = (s.safety_level = 0),
            !.relay_health = (s.safety_level = 3)]

CoilStatus(s) ==
  (IF s.relay_red THEN 1 ELSE 0) + (IF s.relay_yellow THEN 2 ELSE 0)
  + (IF s.relay_green THEN 4 ELSE 0) + (IF s.relay_health THEN 8 ELSE 0)

\* mutant: no heartbeat, a write only when the pattern changes
ModbusDueOnChange(coilStatus, lastCoil, t_now, lastTime) ==
  coilStatus # lastCoil

\* mutant: every tick writes
ModbusDueAlways(coilStatus, lastCoil, t_now, lastTime) ==
  TRUE

ModbusDue(coilStatus, lastCoil, t_now, lastTime) ==
  coilStatus # lastCoil \/ Sub32(t_now, lastTime) > HEARTBEAT_MS

\* lines 363-404 together: ms is millis() when logEvent runs
RecordAndDrive(s, st, h, head, lastCoil, lastTime, t_now, ms) ==
  LET r == StatsAndLog(s, st, h, head, ms)
      s2 == RelayOutput(s)
      coilStatus == CoilStatus(s2)
      due == ModbusDue(coilStatus, lastCoil, t_now, lastTime)
  IN  [sys |-> s2, stats |-> r.stats, history |-> r.history,
       logHead |-> r.logHead,
       lastCoilStatus |-> IF due THEN coilStatus ELSE lastCoil,
       lastModbusTime |-> IF due THEN t_now ELSE lastTime,
       wrote |-> IF ~due THEN "no"
                 ELSE IF coilStatus # lastCoil THEN "change" ELSE "heartbeat"]

\* -------------------------------------------------- history (auxiliary) state
\* the zones held: stop (warn) is set by a tick that ends in Stop (Warn) and
\* released by a tick that evaluates a distance above limit + HYSTERESIS_CM.
\* stopA is released by a tick that finds the signal lost as well; warnA by
\* such a tick and by a tick that ends in Stop.
HoldZones(h, d, level, signal_lost, c) ==
  LET relStop == ~signal_lost /\ d > c.limit_stop_cm + HYSTERESIS_CM
      relWarn == ~signal_lost /\ d > c.limit_warn_cm + HYSTERESIS_CM
  IN  [stop  |-> IF relStop THEN FALSE ELSE (h.stop \/ level = 2),
       warn  |-> IF relWarn THEN FALSE ELSE (h.warn \/ level = 1),
       stopA |-> IF relStop \/ signal_lost THEN FALSE
                 ELSE (h.stopA \/ level = 2),
       warnA |-> IF relWarn \/ signal_lost \/ level = 2 THEN FALSE
                 ELSE (h.warnA \/ level = 1)]

\* consecutive completed ticks with the link alive that ended in Stop:
\* n counts them (2 stands for two or more), base is red_entries before them
DwellAfterTick(dw, level, signal_lost, red_before) ==
  IF ~signal_lost /\ level = 2
  THEN IF dw.n = 0 THEN [n |-> 1, base |-> red_before]
       ELSE [n |-> 2, base |-> dw.base]
  ELSE [n |-> 0, base |-> 0]

\* the period without an accepted sample, as seen when a tick completes.
\* armed: a tick of the period found the link alive and left last_known_zone
\* in {Warn, Stop}; armed0: the period began (sample just stamped, loop idle)
\* with last_known_zone in {Warn, Stop}.  base, base0: comm_drops then.
\* lost, lost0: a later tick of the period has found the signal lost.
QuietAfterTick(q, s, st, signal_lost) ==
  [armed  |-> q.armed \/ (~signal_lost /\ s.last_known_zone \in {1, 2}),
   base   |-> IF q.armed THEN q.base ELSE st.comm_drops,
   lost   |-> q.armed /\ (q.lost \/ signal_lost),
   armed0 |-> q.armed0,
   base0  |-> q.base0,
   lost0  |-> q.armed0 /\ (q.lost0 \/ signal_lost)]

\* every entry logEvent has written: r is the result of lines 363-404, which
\* call logEvent at most once, into the slot at head
Written(app, h, head, r) ==
  IF r.logHead # head THEN Append(app, r.history[head]) ELSE app

\* uwb_task has taken no line yet
NoLine == [head |-> "", marker |-> FALSE, text |-> <<>>]

\* ------------------------------------------------------------------- Init
InitSys ==
  [distance_cm |-> 0, status_msg |-> "", safety_level |-> 0,
   last_packet_ms |-> 0, last_known_zone |-> 0, link_quality_pct |-> 0,
   relay_red |-> FALSE, relay_yellow |-> FALSE, relay_green |-> FALSE,
   relay_health |-> FALSE]

InitLoop ==
  [pc |-> "idle", now |-> 0, elapsed |-> 0, signal_lost |-> FALSE,
   level0 |-> 0, zone0 |-> 0, pair_d |-> 0, d_read |-> 0,
   wrote |-> "no", edge |-> FALSE, touched |-> FALSE, done |-> FALSE]

InitQuiet ==
  [armed |-> FALSE, base |-> 0, lost |-> FALSE,
   armed0 |-> FALSE, base0 |-> 0, lost0 |-> FALSE]

InitHyst == [stop |-> FALSE, warn |-> FALSE, stopA |-> FALSE, warnA |-> FALSE]

NoScript == [script |-> <<>>, step |-> 0, levels |-> <<>>]

\* the globals no task has touched when loop() starts
InitCommon ==
  /\ now = SETUP_MS
  /\ stats = [red_entries |-> 0, yellow_entries |-> 0, comm_drops |-> 0,
              last_level_stats |-> 0]
  /\ \E st \in Stored : cfg = loadConfig(st)
  /\ history = [i \in 0 .. MAX_LOG_EVENTS - 1 |-> EmptySlot]
  /\ logHead = 0
  /\ lastCoilStatus = COIL_NONE
  /\ lastModbusTime = 0
  /\ loopT = InitLoop
  /\ uwbT = [pc |-> "read", d |-> 0]
  /\ hyst = InitHyst
  /\ dwell = [n |-> 0, base |-> 0]
  /\ quiet = InitQuiet
  /\ saveT = [pc |-> "idle", t0 |-> 0, put |-> <<>>]
  /\ uwbLine = NoLine
  /\ appended = <<>>

\* no ranging sample was accepted while setup() ran
InitNoSample ==
  /\ sys = InitSys
  /\ outgoingData = [type |-> 0, dist |-> 0, safety_lvl |-> 0]
  /\ air = <<>>
  /\ paired = 0
  /\ tx = 0

\* uwb_task accepted the sample d at time t while setup() ran
InitSampled(d, t) ==
  /\ sys = [InitSys EXCEPT !.distance_cm = d, !.last_packet_ms = t]
  /\ outgoingData = [type |-> PKT_TYPE, dist |-> d, safety_lvl |-> 0]
  /\ air = outgoingData
  /\ paired = d
  /\ tx = 1

Init ==
  /\ InitCommon
  /\ InitNoSample
  /\ ex = NoScript

\* ------------------------------------------------------------ the clock
\* the clock moves on a grid far coarser than a step of either task, so it
\* advances while both tasks are between two handlers
Advance ==
  \E dt \in TimeSteps :
    /\ loopT.pc = "idle"
    /\ uwbT.pc = "read"
    /\ now + dt <= SETUP_MS + Horizon
    /\ now' = now + dt
    /\ UNCHANGED <<sys, stats, cfg, history, logHead, lastCoilStatus,
                   lastModbusTime, outgoingData, air, loopT, uwbT, paired,
                   hyst, dwell, quiet, ex>>
    /\ UNCHANGED <<saveT, uwbLine, tx, appended>>

\* ------------------------------------------------------------- uwb_task
\* lines 417-420: a frame parsed to d passes the filter, sys.distance_cm = d
UwbDistance ==
  \E d \in Samples :
    /\ uwbT.pc = "read"
    /\ 10 * d > 1
    /\ sys' = [sys EXCEPT !.distance_cm = d]
    /\ uwbT' = [pc |-> "stamp", d |-> d]
    /\ quiet' = InitQuiet
    /\ UNCHANGED <<now, stats, cfg, history, logHead, lastCoilStatus,
                   lastModbusTime, outgoingData, air, loopT, paired, hyst,
                   dwell, ex>>
    /\ tx' = 0
    /\ UNCHANGED <<saveT, uwbLine, appended>>

\* lines 421-426: sys.last_packet_ms = millis(), then the telemetry packet
UwbStamp ==
  /\ uwbT.pc = "stamp"
  /\ sys' = [sys EXCEPT !.last_packet_ms = now]
  /\ outgoingData' = [type |-> PKT_TYPE, dist |-> uwbT.d,
                      safety_lvl |-> sys.safety_level]
  /\ air' = outgoingData'
  /\ uwbT' = [pc |-> "read", d |-> 0]
  /\ paired' = uwbT.d
  /\ quiet' = [InitQuiet EXCEPT
                 !.armed0 = (loopT.pc = "idle" /\ sys.last_known_zone \in {1, 2}),
                 !.base0 = stats.comm_drops]
  /\ UNCHANGED <<now, stats, cfg, history, logHead, lastCoilStatus,
                 lastModbusTime, loopT, hyst, dwell, ex>>
  /\ tx' = tx + 1
  /\ UNCHANGED <<saveT, uwbLine, appended>>

\* ------------------------------------------- loop(): checkSafetyAndRelays
\* line 325: now = millis()
TickClock ==
  /\ loopT.pc = "idle"
  /\ logHead < MaxLog
  /\ loopT' = [InitLoop EXCEPT !.pc = "watch", !.now = now,
                               !.level0 = sys.safety_level,
                               !.zone0 = sys.last_known_zone,
                               !.done = loopT.done]
  /\ UNCHANGED <<now, sys, stats, cfg, history, logHead, lastCoilStatus,
                 lastModbusTime, outgoingData, air, uwbT, paired, hyst,
                 dwell, quiet, ex>>
  /\ UNCHANGED <<saveT, uwbLine, tx, appended>>

\* lines 326-332: the watchdog reads sys.last_packet_ms
TickWatch ==
  /\ loopT.pc = "watch"
  /\ LET elapsed == Sub32(loopT.now, sys.last_packet_ms)
     IN  /\ sys' = [sys EXCEPT !.link_quality_pct = LinkQuality(elapsed)]
         /\ loopT' = [loopT EXCEPT !.pc = "eval", !.elapsed = elapsed,
                                   !.signal_lost = SignalLost(elapsed),
                                   !.pair_d = paired]
  /\ UNCHANGED <<now, stats, cfg, history, logHead, lastCoilStatus,
                 lastModbusTime, outgoingData, air, uwbT, paired, hyst,
                 dwell, quiet, ex>>
  /\ UNCHANGED <<saveT, uwbLine, tx, appended>>

\* lines 334-361: classifier or failsafe; the classifier loads sys.distance_cm
TickEvaluate ==
  /\ loopT.pc = "eval"
  /\ sys' = Evaluate(sys, loopT.signal_lost, sys.distance_cm, cfg)
  /\ loopT' = [loopT EXCEPT !.pc = "record", !.d_read = sys.distance_cm]
  /\ hyst' = HoldZones(hyst, sys.distance_cm, sys'.safety_level,
                       loopT.signal_lost, cfg)
  /\ UNCHANGED <<now, stats, cfg, history, logHead, lastCoilStatus,
                 lastModbusTime, outgoingData, air, uwbT, paired, dwell,
                 quiet, ex>>
  /\ UNCHANGED <<saveT, uwbLine, tx, appended>>

\* lines 363-404: statistics, event log, relays, Modbus write
TickRecord ==
  /\ loopT.pc = "record"
  /\ LET r == RecordAndDrive(sys, stats, history, logHead, lastCoilStatus,
                             lastModbusTime, loopT.now, now)
     IN  /\ sys' = r.sys
         /\ stats' = r.stats
         /\ history' = r.history
         /\ logHead' = r.logHead
         /\ lastCoilStatus' = r.lastCoilStatus
         /\ lastModbusTime' = r.lastModbusTime
         /\ appended' = Written(appended, history, logHead, r)
         /\ loopT' = [loopT EXCEPT
                        !.pc = "idle", !.wrote = r.wrote, !.done = TRUE,
                        !.edge = (sys.safety_level # stats.last_level_stats),
                        !.touched = (r.stats # stats \/ r.history # history
                                     \/ r.logHead # logHead)]
  /\ dwell' = DwellAfterTick(dwell, sys.safety_level, loopT.signal_lost,
                             stats.red_entries)
  /\ quiet' = QuietAfterTick(quiet, sys, stats, loopT.signal_lost)
  /\ UNCHANGED <<now, cfg, outgoingData, air, uwbT, paired, hyst, ex>>
  /\ UNCHANGED <<saveT, uwbLine, tx>>

Next ==
  \/ Advance
  \/ UwbDistance
  \/ UwbStamp
  \/ TickClock
  \/ TickWatch
  \/ TickEvaluate
  \/ TickRecord

\* the two tasks interleaved at every access to a shared variable
Spec == Init /\ [][Next]_vars

\* ------------------------------------------------ handlers run to the end
\* checkSafetyAndRelays() from line 325 to line 404 with no step of uwb_task
\* in between: the composition of the four sections above
checkSafetyAndRelays(t_now) ==
  LET elapsed == Sub32(t_now, sys.last_packet_ms)
      lost == SignalLost(elapsed)
      s1 == [sys EXCEPT !.link_quality_pct = LinkQuality(elapsed)]
      s2 == Evaluate(s1, lost, s1.distance_cm, cfg)
      r == RecordAndDrive(s2, stats, history, logHead, lastCoilStatus,
                          lastModbusTime, t_now, t_now)
  IN  /\ sys' = r.sys
      /\ stats' = r.stats
      /\ history' = r.history
      /\ logHead' = r.logHead
      /\ lastCoilStatus' = r.lastCoilStatus
      /\ lastModbusTime' = r.lastModbusTime
      /\ appended' = Written(appended, history, logHead, r)
      /\ loopT' = [pc |-> "idle", now |-> t_now, elapsed |-> elapsed,
                   signal_lost |-> lost, level0 |-> sys.safety_level,
                   zone0 |-> sys.last_known_zone, pair_d |-> paired,
                   d_read |-> sys.distance_cm, wrote |-> r.wrote,
                   edge |-> (s2.safety_level # stats.last_level_stats),
                   touched |-> (r.stats # stats \/ r.history # history
                                \/ r.logHead # logHead),
                   done |-> TRUE]
      /\ hyst' = HoldZones(hyst, sys.distance_cm, s2.safety_level, lost, cfg)
      /\ dwell' = DwellAfterTick(dwell, s2.safety_level, lost, stats.red_entries)
      /\ quiet' = QuietAfterTick(quiet, s2, stats, lost)

\* lines 419-426 of uwb_task with no step of loop() in between
uwb_accept(s, d, t) == [s EXCEPT !.distance_cm = d, !.last_packet_ms = t]

SeqTick ==
  /\ loopT.pc = "idle"
  /\ uwbT.pc = "read"
  /\ logHead < SeqLog
  /\ checkSafetyAndRelays(now)
  /\ UNCHANGED <<now, cfg, outgoingData, air, uwbT, paired, ex>>
  /\ UNCHANGED <<saveT, uwbLine, tx>>

SeqAccept ==
  \E d \in Samples :
    /\ loopT.pc = "idle"
    /\ uwbT.pc = "read"
    /\ 10 * d > 1
    /\ sys' = uwb_accept(sys, d, now)
    /\ outgoingData' = [type |-> PKT_TYPE, dist |-> d,
                        safety_lvl |-> sys.safety_level]
    /\ air' = outgoingData'
    /\ paired' = d
    /\ quiet' = [InitQuiet EXCEPT
                   !.armed0 = (sys.last_known_zone \in {1, 2}),
                   !.base0 = stats.comm_drops]
    /\ UNCHANGED <<now, stats, cfg, history, logHead, lastCoilStatus,
                   lastModbusTime, loopT, uwbT, hyst, dwell, ex>>
    /\ tx' = 1
    /\ UNCHANGED <<saveT, uwbLine, appended>>

NextSeq ==
  \/ Advance
  \/ SeqAccept
  \/ SeqTick

SpecSeq == Init /\ [][NextSeq]_vars

\* ------------------------------------------------- the watchdog, every ms
\* a sample was accepted during setup(), 0 .. MaxElapsed ms before loop()
InitLink ==
  /\ InitCommon
  /\ \E d \in LinkSamples, e \in 0 .. MaxElapsed : InitSampled(d, SETUP_MS - e)
  /\ ex = NoScript

LinkWait ==
  /\ now < SETUP_MS + LinkHorizon
  /\ now' = now + 1
  /\ UNCHANGED <<sys, stats, cfg, history, logHead, lastCoilStatus,
                 lastModbusTime, outgoingData, air, loopT, uwbT, paired,
                 hyst, dwell, quiet, ex>>
  /\ UNCHANGED <<saveT, uwbLine, tx, appended>>

NextLink ==
  \/ LinkWait
  \/ SeqTick

SpecLink == InitLink /\ [][NextLink]_vars

\* ------------------------------------------- uwb_task, statement by statement
\* mutant: the level is not filled in
packet_t_blank(d, level) == [type |-> PKT_TYPE, dist |-> d, safety_lvl |-> 0]

\* lines 423-425: the fields of outgoingData
packet_t(d, level) == [type |-> PKT_TYPE, dist |-> d, safety_lvl |-> level]

\* line 421: sys.last_packet_ms = millis()
UwbMillis ==
  /\ uwbT.pc = "stamp"
  /\ sys' = [sys EXCEPT !.last_packet_ms = now]
  /\ uwbT' = [uwbT EXCEPT !.pc = "build"]
  /\ paired' = uwbT.d
  /\ quiet' = [InitQuiet EXCEPT
                 !.armed0 = (loopT.pc = "idle" /\ sys.last_known_zone \in {1, 2}),
                 !.base0 = stats.comm_drops]
  /\ UNCHANGED <<now, stats, cfg, history, logHead, lastCoilStatus,
                 lastModbusTime, outgoingData, air, loopT, hyst, dwell, ex,
                 saveT, uwbLine, tx, appended>>

\* lines 423-425: outgoingData is filled, the level read from sys
UwbBuild ==
  /\ uwbT.pc = "build"
  /\ outgoingData' = packet_t(uwbT.d, sys.safety_level)
  /\ uwbT' = [uwbT EXCEPT !.pc = "send"]
  /\ UNCHANGED <<now, sys, stats, cfg, history, logHead, lastCoilStatus,
                 lastModbusTime, air, loopT, paired, hyst, dwell, quiet, ex,
                 saveT, uwbLine, tx, appended>>

\* line 426: esp_now_send(peerMac, &outgoingData, sizeof(outgoingData))
UwbSend ==
  /\ uwbT.pc = "send"
  /\ air' = outgoingData
  /\ tx' = tx + 1
  /\ uwbT' = [pc |-> "read", d |-> 0]
  /\ UNCHANGED <<now, sys, stats, cfg, history, logHead, lastCoilStatus,
                 lastModbusTime, outgoingData, loopT, paired, hyst, dwell,
                 quiet, ex, saveT, uwbLine, appended>>

\* a tick of loop() between two statements of uwb_task
SendTick ==
  /\ loopT.pc = "idle"
  /\ logHead < SendLog
  /\ checkSafetyAndRelays(now)
  /\ UNCHANGED <<now, cfg, outgoingData, air, uwbT, paired, ex>>
  /\ UNCHANGED <<saveT, uwbLine, tx>>

NextSend ==
  \/ Advance
  \/ UwbDistance
  \/ UwbMillis
  \/ UwbBuild
  \/ UwbSend
  \/ SendTick

SpecSend == Init /\ [][NextSend]_vars

\* ------------------------------------- the scheduler between two statements
\* loop() and uwb_task have the same priority on the same core: the tick
\* interrupt takes the core from loop() after line 325, and millis() moves on
\* before loop() reaches line 326
Slice ==
  /\ loopT.pc = "watch"
  /\ now < SETUP_MS + SliceMax
  /\ now' = now + 1
  /\ UNCHANGED <<sys, stats, cfg, history, logHead, lastCoilStatus,
                 lastModbusTime, outgoingData, air, loopT, uwbT, paired,
                 hyst, dwell, quiet, ex, saveT, uwbLine, tx, appended>>

NextSlice ==
  \/ Slice
  \/ UwbDistance
  \/ UwbStamp
  \/ TickClock
  \/ TickWatch
  \/ TickEvaluate
  \/ TickRecord

SpecSlice == Init /\ [][NextSlice]_vars

\* ------------------------------------------------- millis() wraps to 0
\* the unit stays switched on and no sample arrives: every tick of loop()
\* finds the signal lost and changes nothing but its clock reading.  Uptime
\* is those ticks up to the last one, WrapLead ms before millis() wraps
Uptime ==
  /\ loopT.pc = "idle"
  /\ uwbT.pc = "read"
  /\ loopT.done
  /\ loopT.signal_lost
  /\ loopT.pair_d = paired
  /\ now >= SETUP_MS
  /\ now <= SETUP_MS + Horizon
  /\ now' = WRAP_TOP - WrapLead
  /\ checkSafetyAndRelays(now')
  /\ UNCHANGED <<cfg, outgoingData, air, uwbT, paired, ex>>
  /\ UNCHANGED <<saveT, uwbLine, tx>>

\* the clock of this specification: Horizon ms from the first tick, and
\* from the end of Uptime through the wrap to Horizon ms beyond it
WrapClock ==
  \E dt \in TimeSteps :
    /\ loopT.pc = "idle"
    /\ uwbT.pc = "read"
    /\ \/ now >= SETUP_MS /\ now <= SETUP_MS + Horizon - dt
       \/ now >= WRAP_TOP - WrapLead
       \/ now <= Horizon - dt
    /\ now' = Add32(now, dt)
    /\ UNCHANGED <<sys, stats, cfg, history, logHead, lastCoilStatus,
                   lastModbusTime, outgoingData, air, loopT, uwbT, paired,
                   hyst, dwell, quiet, ex, saveT, uwbLine, tx, appended>>

NextWrap ==
  \/ SeqAccept
  \/ SeqTick
  \/ Uptime
  \/ WrapClock

SpecWrap == Init /\ [][NextWrap]_vars

\* ------------------------------------------------- uwb_task, line by line
Digits == {"0", "1", "2", "3", "4", "5", "6", "7", "8", "9"}

DigitValue(c) ==
  CASE c = "0" -> 0 [] c = "1" -> 1 [] c = "2" -> 2 [] c = "3" -> 3
    [] c = "4" -> 4 [] c = "5" -> 5 [] c = "6" -> 6 [] c = "7" -> 7
    [] c = "8" -> 8 [] c = "9" -> 9

\* the number of digits text has from position i on
RECURSIVE DigitRun(_, _)
DigitRun(text, i) ==
  IF i <= Len(text) /\ text[i] \in Digits THEN 1 + DigitRun(text, i + 1) ELSE 0

\* the value of the n digits of text that start at position i
RECURSIVE DigitsValue(_, _, _)
DigitsValue(text, i, n) ==
  IF n = 0 THEN 0
  ELSE 10 * DigitsValue(text, i, n - 1) + DigitValue(text[i + n - 1])

\* String::toFloat(), in hundredths: an optional sign, the digits, a point
\* and two decimals are converted, what follows is ignored, and a text that
\* does not start with a number gives 0
toFloat(text) ==
  LET neg == Len(text) >= 1 /\ text[1] = "-"
      i == IF neg THEN 2 ELSE 1
      n == DigitRun(text, i)
      point == Len(text) >= i + n /\ text[i + n] = "."
      m == IF point THEN DigitRun(text, i + n + 1) ELSE 0
      tenths == IF m >= 1 THEN DigitValue(text[i + n + 1]) ELSE 0
      hundredths == IF m >= 2 THEN DigitValue(text[i + n + 2]) ELSE 0
      v == 100 * DigitsValue(text, i, n) + 10 * tenths + hundredths
  IN  IF n = 0 /\ m = 0 THEN 0 ELSE IF neg THEN -v ELSE v

\* lines 414-419: startsWith("AT+RANGE="), indexOf("range:(") > 0, d > 0.1
Accepted(f) ==
  /\ f.head = "AT+RANGE="
  /\ f.marker
  /\ toFloat(f.text) > 10

\* lines 411-430: uwb_task has read a line up to its newline
uwb_line ==
  \E f \in Frames :
    /\ loopT.pc = "idle"
    /\ uwbT.pc = "read"
    /\ uwbLine' = f
    /\ IF Accepted(f)
       THEN LET d == toFloat(f.text) \div 100
            IN  /\ sys' = uwb_accept(sys, d, now)
                /\ outgoingData' = [type |-> PKT_TYPE, dist |-> d,
                                    safety_lvl |-> sys.safety_level]
                /\ air' = outgoingData'
                /\ paired' = d
                /\ quiet' = [InitQuiet EXCEPT
                               !.armed0 = (sys.last_known_zone \in {1, 2}),
                               !.base0 = stats.comm_drops]
                /\ tx' = 1
       ELSE UNCHANGED <<sys, outgoingData, air, paired, quiet, tx>>
    /\ UNCHANGED <<now, stats, cfg, history, logHead, lastCoilStatus,
                   lastModbusTime, loopT, uwbT, hyst, dwell, ex, saveT,
                   appended>>

NextFrame ==
  \/ Advance
  \/ uwb_line
  \/ SeqTick

SpecFrame == Init /\ [][NextFrame]_vars

\* ------------------------------------------------- the event log, filled
\* the slots of history from index 0 to index MAX_LOG_EVENTS - 1
Slots(h) == [i \in 1 .. MAX_LOG_EVENTS |-> h[i - 1]]

HasDistance(e) == e.distance > 0

\* lines 490-499, the "hist" array of /live: the slots with distance > 0,
\* by index
live_hist(h) ==
  LET kept == SelectSeq(Slots(h), HasDistance)
  IN  [i \in 1 .. Len(kept) |-> [t |-> kept[i].timestamp, d |-> kept[i].distance,
                                  z |-> kept[i].zone, q |-> kept[i].link_quality]]

NonZeroDistance(e) == e.distance # 0

\* String(distance / 100.0): metres with two decimals
Metres(cm) == <<cm \div 100, cm % 100>>

\* lines 466-475, the rows of /download_csv: the slots with distance != 0,
\* by index
download_csv(h) ==
  LET kept == SelectSeq(Slots(h), NonZeroDistance)
  IN  [i \in 1 .. Len(kept) |-> <<kept[i].timestamp, Metres(kept[i].distance),
                                   kept[i].zone, kept[i].link_quality>>]

\* LogSteps ms after the tick that evaluated the last sample, uwb_task
\* accepts a sample that belongs to another zone
LogAccept ==
  \E d \in LogSamples, dt \in LogSteps :
    /\ loopT.pc = "idle"
    /\ uwbT.pc = "read"
    /\ loopT.pair_d = paired
    /\ Classify(d, sys.safety_level, cfg) # sys.safety_level
    /\ now' = now + dt
    /\ sys' = uwb_accept(sys, d, now')
    /\ outgoingData' = [type |-> PKT_TYPE, dist |-> d,
                        safety_lvl |-> sys.safety_level]
    /\ air' = outgoingData'
    /\ paired' = d
    /\ quiet' = [InitQuiet EXCEPT
                   !.armed0 = (sys.last_known_zone \in {1, 2}),
                   !.base0 = stats.comm_drops]
    /\ tx' = 1
    /\ UNCHANGED <<stats, cfg, history, logHead, lastCoilStatus,
                   lastModbusTime, loopT, uwbT, hyst, dwell, ex, saveT,
                   uwbLine, appended>>

LogTick ==
  /\ loopT.pc = "idle"
  /\ uwbT.pc = "read"
  /\ Len(appended) < MaxAppends
  /\ checkSafetyAndRelays(now)
  /\ UNCHANGED <<now, cfg, outgoingData, air, uwbT, paired, ex>>
  /\ UNCHANGED <<saveT, uwbLine, tx>>

NextLog ==
  \/ LogAccept
  \/ LogTick

SpecLog == Init /\ [][NextLog]_vars

\* ------------------------------------------------- the /save handler
\* lines 510-519: the posted values go to cfg and from cfg to NVS as they
\* are; saveT.put is the pair handed to pref.putFloat
save ==
  \E ps \in SaveParams, pw \in SaveParams :
    /\ saveT.pc = "idle"
    /\ loopT.pc = "idle"
    /\ uwbT.pc = "read"
    /\ cfg' = [limit_stop_cm |-> IF ps # <<>> THEN ps[1] ELSE cfg.limit_stop_cm,
               limit_warn_cm |-> IF pw # <<>> THEN pw[1] ELSE cfg.limit_warn_cm]
    /\ saveT' = [pc |-> "delay", t0 |-> now,
                 put |-> <<cfg'.limit_stop_cm, cfg'.limit_warn_cm>>]
    /\ UNCHANGED <<now, sys, stats, history, logHead, lastCoilStatus,
                   lastModbusTime, outgoingData, air, loopT, uwbT, paired,
                   hyst, dwell, quiet, ex, uwbLine, tx, appended>>

\* line 520, delay(500): the handler runs in the web server's task, loop()
\* and uwb_task go on; the clock does not pass the end of the delay
SaveDelay ==
  /\ saveT.pc = "delay" => Sub32(now, saveT.t0) < SAVE_DELAY_MS
  /\ Advance

\* line 520, ESP.restart(): RAM is lost, setup() runs again and loadConfig
\* reads from NVS the pair /save has put there
restart ==
  /\ saveT.pc = "delay"
  /\ Sub32(now, saveT.t0) >= SAVE_DELAY_MS
  /\ cfg' = loadConfig(saveT.put)
  /\ saveT' = [saveT EXCEPT !.pc = "idle", !.t0 = 0]
  /\ now' = SETUP_MS
  /\ sys' = InitSys
  /\ stats' = [red_entries |-> 0, yellow_entries |-> 0, comm_drops |-> 0,
               last_level_stats |-> 0]
  /\ history' = [i \in 0 .. MAX_LOG_EVENTS - 1 |-> EmptySlot]
  /\ logHead' = 0
  /\ lastCoilStatus' = COIL_NONE
  /\ lastModbusTime' = 0
  /\ outgoingData' = [type |-> 0, dist |-> 0, safety_lvl |-> 0]
  /\ air' = <<>>
  /\ loopT' = InitLoop
  /\ uwbT' = [pc |-> "read", d |-> 0]
  /\ paired' = 0
  /\ hyst' = InitHyst
  /\ dwell' = [n |-> 0, base |-> 0]
  /\ quiet' = InitQuiet
  /\ uwbLine' = NoLine
  /\ tx' = 0
  /\ appended' = <<>>
  /\ UNCHANGED ex

SaveTick ==
  /\ loopT.pc = "idle"
  /\ uwbT.pc = "read"
  /\ logHead < SaveLog
  /\ checkSafetyAndRelays(now)
  /\ UNCHANGED <<now, cfg, outgoingData, air, uwbT, paired, ex>>
  /\ UNCHANGED <<saveT, uwbLine, tx>>

NextSave ==
  \/ save
  \/ SaveDelay
  \/ restart
  \/ SeqAccept
  \/ SaveTick

SpecSave == Init /\ [][NextSave]_vars

\* ------------------------------------------------------- scripted samples
Scripts == [1 .. ScriptLen -> ExSamples]

InitExample ==
  /\ InitCommon
  /\ InitNoSample
  /\ \E sc \in Scripts : ex = [script |-> sc, step |-> 0, levels |-> <<>>]

\* the next sample of the script is accepted, and one tick evaluates it
\* dt ms later
ExStep ==
  \E dt \in ExDelays :
    /\ ex.step < Len(ex.script)
    /\ LET d == ex.script[ex.step + 1]
           accepted == uwb_accept(sys, d, now)
           lost == SignalLost(Sub32(now + dt, now))
           s1 == [accepted EXCEPT !.link_quality_pct = LinkQuality(Sub32(now + dt, now))]
           s2 == Evaluate(s1, lost, d, cfg)
           r == RecordAndDrive(s2, stats, history, logHead, lastCoilStatus,
                               lastModbusTime, now + dt, now + dt)
       IN  /\ now' = now + dt
           /\ sys' = r.sys
           /\ stats' = r.stats
           /\ history' = r.history
           /\ logHead' = r.logHead
           /\ lastCoilStatus' = r.lastCoilStatus
           /\ lastModbusTime' = r.lastModbusTime
           /\ appended' = Written(appended, history, logHead, r)
           /\ outgoingData' = [type |-> PKT_TYPE, dist |-> d,
                               safety_lvl |-> sys.safety_level]
           /\ air' = outgoingData'
           /\ paired' = d
           /\ ex' = [ex EXCEPT !.step = @ + 1,
                               !.levels = Append(@, r.sys.safety_level)]
    /\ UNCHANGED <<cfg, loopT, uwbT, hyst, dwell, quiet>>
    /\ tx' = 1
    /\ UNCHANGED <<saveT, uwbLine>>

NextExample == ExStep

SpecExample == InitExample /\ [][NextExample]_vars

\* ===================================================================== claims
OneRelay(s) ==
  Cardinality({r \in {"red", "yellow", "green", "health"} :
     CASE r = "red" -> s.relay_red
       [] r = "yellow" -> s.relay_yellow
       [] r = "green" -> s.relay_green
       [] OTHER -> s.relay_health}) = 1

HealthOnly(s) ==
  s.relay_health /\ ~s.relay_red /\ ~s.relay_yellow /\ ~s.relay_green

TickDone == loopT.pc = "idle" /\ loopT.done

\* C1: on a tick that finds the signal lost, the level that results is Safe
\* exactly when last_known_zone was Safe before the tick, and CommLoss
\* otherwise; it is never Warn or Stop, and it is still so when the tick ends.
FailsafeCorrect ==
  /\ (loopT.pc = "record" /\ loopT.signal_lost) =>
        /\ loopT.zone0 \in {0, 1, 2}
        /\ (sys.safety_level = 0) <=> (loopT.zone0 = 0)
        /\ (sys.safety_level = 3) <=> (loopT.zone0 # 0)
        /\ sys.safety_level \notin {1, 2}
  /\ (TickDone /\ loopT.signal_lost) =>
        sys.safety_level = (IF loopT.zone0 = 0 THEN 0 ELSE 3)

\* C1 witness: a tick found the signal lost after Stop and went to CommLoss
FailsafeSeen ==
  /\ loopT.pc = "record" /\ loopT.signal_lost
  /\ loopT.zone0 = 2 /\ sys.safety_level = 3

\* C2 as stated: once the level was Stop, it is not Warn or Safe until a tick
\* has evaluated a distance above limit_stop_cm + HYSTERESIS_CM; once it was
\* Warn, it is not Safe until a tick has evaluated a distance above
\* limit_warn_cm + HYSTERESIS_CM.
HysteresisHoldsAlways ==
  /\ hyst.stop => sys.safety_level \notin {0, 1}
  /\ hyst.warn => sys.safety_level # 0

\* C2 amended: once the level was Stop, it is not Warn or Safe until a tick
\* has evaluated a distance above limit_stop_cm + HYSTERESIS_CM or has found
\* the signal lost; once it was Warn, it is not Safe until a tick has
\* evaluated a distance above limit_warn_cm + HYSTERESIS_CM, has found the
\* signal lost, or has moved the level to Stop.
HysteresisHoldsInZone ==
  /\ hyst.stopA => sys.safety_level \notin {0, 1}
  /\ hyst.warnA => sys.safety_level # 0

\* C2 witness: a tick evaluated limit_stop_cm + HYSTERESIS_CM while in Stop
\* and the level stayed Stop
HysteresisHeld ==
  /\ TickDone /\ ~loopT.signal_lost
  /\ hyst.stopA /\ loopT.level0 = 2
  /\ loopT.d_read = cfg.limit_stop_cm + HYSTERESIS_CM
  /\ sys.safety_level = 2

\* C3: after every completed tick exactly one relay bit is set, the one of
\* the level (red Stop, yellow Warn, green Safe, health CommLoss), and the
\* coil pattern has exactly one bit set.
RelayExclusive ==
  TickDone =>
    /\ OneRelay(sys)
    /\ sys.relay_red <=> (sys.safety_level = 2)
    /\ sys.relay_yellow <=> (sys.safety_level = 1)
    /\ sys.relay_green <=> (sys.safety_level = 0)
    /\ sys.relay_health <=> (sys.safety_level = 3)
    /\ CoilStatus(sys) \in {1, 2, 4, 8}

\* C3 witness: a tick has completed in CommLoss after one in another zone
RelaySwitched == TickDone /\ sys.relay_health /\ stats.red_entries > 0

\* C4: a tick whose level equals last_level_stats changes no counter and
\* appends nothing to the log; consecutive ticks with the link alive that end
\* in Stop raise red_entries by exactly one in total.
EdgeTriggered ==
  /\ (TickDone /\ ~loopT.edge) => ~loopT.touched
  /\ dwell.n >= 1 => stats.red_entries = dwell.base + 1

\* C4 witness: a second tick in a row has ended in Stop
DwellSeen == TickDone /\ dwell.n = 2 /\ ~loopT.edge

\* C5: when a tick completes, the last Modbus write is at most HEARTBEAT_MS
\* older than the tick's reading of the clock, so no ticks HEARTBEAT_MS apart
\* pass without a write.
HeartbeatResend ==
  TickDone => Sub32(loopT.now, lastModbusTime) <= HEARTBEAT_MS

\* C5 witness: a tick wrote an unchanged pattern because the heartbeat was
\* due, after a tick half an interval earlier that did not write
HeartbeatSeen == TickDone /\ loopT.wrote = "heartbeat"

\* the example of the specification
Example == <<600, 480, 520, 1600>>

ExampleDone ==
  /\ Len(ex.script) >= 4
  /\ SubSeq(ex.script, 1, 4) = Example
  /\ ex.step = 4
  /\ cfg = [limit_stop_cm |-> 500, limit_warn_cm |-> 1500]

Logged(i, zoneName, dist) ==
  history[i].zone = zoneName /\ history[i].distance = dist

\* C6 as stated: the example yields Safe, Stop, Stop, Warn, two log entries
\* (Stop at step 2, Warn at step 4), red_entries = 1 and yellow_entries = 1.
ExampleAsStated ==
  ExampleDone =>
    /\ ex.levels = <<0, 2, 2, 1>>
    /\ logHead = 2
    /\ Logged(0, "DANGER", 480) /\ Logged(1, "WARN", 1600)
    /\ stats.red_entries = 1 /\ stats.yellow_entries = 1

\* C6 amended: the example yields Warn, Stop, Stop, Safe, three log entries
\* (Warn at step 1, Stop at step 2, Safe at step 4), red_entries = 1 and
\* yellow_entries = 1.
ExampleAsCoded ==
  ExampleDone =>
    /\ ex.levels = <<1, 2, 2, 0>>
    /\ logHead = 3
    /\ Logged(0, "WARN", 600) /\ Logged(1, "DANGER", 480)
    /\ Logged(2, "SAFE", 1600)
    /\ history[3] = EmptySlot
    /\ stats.red_entries = 1 /\ stats.yellow_entries = 1
    /\ stats.comm_drops = 0

\* C6 witness: the four samples of the example have been evaluated
ExampleSeen == ExampleDone /\ sys.distance_cm = 1600

NoTornSample ==
  (loopT.pc = "record" /\ ~loopT.signal_lost) => loopT.d_read = loopT.pair_d

\* the classifier of the specification: cur is the level before the tick
RefLevel(d, cur) ==
  LET eff_stop == cfg.limit_stop_cm + (IF cur = 2 THEN 20 ELSE 0)
      eff_warn == cfg.limit_warn_cm + (IF cur = 1 THEN 20 ELSE 0)
  IN  CASE d <= eff_stop -> 2
        [] d > eff_stop /\ d <= eff_warn -> 1
        [] OTHER -> 0

\* C9: on a tick with the signal not lost the new level is the reference
\* classifier applied to the distance read and the level before the tick.
ClassifierMatches ==
  (loopT.pc = "record" /\ ~loopT.signal_lost) =>
    sys.safety_level = RefLevel(loopT.d_read, loopT.level0)

\* C9 witness: a distance equal to the widened stop threshold, evaluated in
\* Stop, stayed Stop
TieBreakSeen ==
  /\ loopT.pc = "record" /\ ~loopT.signal_lost
  /\ loopT.level0 = 2
  /\ loopT.d_read = cfg.limit_stop_cm + 20
  /\ sys.safety_level = 2

\* the link quality the specification gives for an elapsed time e
QualityFits(e, q) ==
  /\ q \in 0 .. 100
  /\ e < 100 => q = 100
  /\ e > 2000 => q = 0
  /\ e = 100 => q = 100
  /\ e = 2000 => q = 0
  /\ (e >= 100 /\ e <= 2000) =>
        /\ 1900 * (100 - q) <= 100 * (e - 100)
        /\ 100 * (e - 100) < 1900 * (100 - q + 1)

\* C10: after every tick link_quality_pct is in 0 .. 100, is 100 below
\* 100 ms, 0 above 2000 ms and the interpolation in between; a tick with a
\* larger elapsed time never computes a larger quality.
LinkQualityDecays ==
  /\ [](loopT.done => QualityFits(loopT.elapsed, sys.link_quality_pct))
  /\ [][(loopT.done /\ loopT'.elapsed >= loopT.elapsed)
          => sys'.link_quality_pct <= sys.link_quality_pct]_vars

\* C10 witness: a tick ran exactly 2000 ms after the sample
LinkQualityAtEnd ==
  loopT.done /\ loopT.elapsed = 2000 /\ sys.link_quality_pct = 0

\* a step that is a whole tick of checkSafetyAndRelays with the link alive
AliveTickStep == loopT' # loopT /\ loopT'.done /\ ~loopT'.signal_lost

\* C11: no tick classifies a distance while limit_stop_cm or limit_warn_cm
\* is below FLOOR_CM, also between a /save and the restart that follows.
SaveRevalidates ==
  [][AliveTickStep => (cfg.limit_stop_cm >= FLOOR_CM
                       /\ cfg.limit_warn_cm >= FLOOR_CM)]_vars

\* what loadConfig has to make of a stored value
Floored(v, default) == IF v < 50 THEN default ELSE v

\* C12: after loadConfig both limits are at least 50; of the stored pair a
\* stop value below 50 has become 500, a warn value below 50 has become 1500,
\* each whatever the other is, and a value of 50 or more is unchanged.
LoadConfigFloors ==
  saveT.pc = "idle" =>
    /\ cfg.limit_stop_cm >= 50 /\ cfg.limit_warn_cm >= 50
    /\ saveT.put # <<>> =>
          /\ cfg.limit_stop_cm = Floored(saveT.put[1], 500)
          /\ cfg.limit_warn_cm = Floored(saveT.put[2], 1500)

\* C12 witness: loadConfig found a stop value of 49 next to a warn value of
\* 600 and replaced the stop value only
LoadConfigMixed ==
  /\ saveT.pc = "idle" /\ saveT.put = <<49, 600>>
  /\ cfg = [limit_stop_cm |-> 500, limit_warn_cm |-> 600]

\* the entries the log has to hold: the last MAX_LOG_EVENTS of those written
Recent ==
  LET k == Len(appended)
      n == IF k < 50 THEN k ELSE 50
  IN  SubSeq(appended, k - n + 1, k)

Reversed(q) == [i \in 1 .. Len(q) |-> q[Len(q) + 1 - i]]

AsHist(q) == [i \in 1 .. Len(q) |-> [t |-> q[i].timestamp, d |-> q[i].distance,
                                      z |-> q[i].zone, q |-> q[i].link_quality]]

AsRows(q) == [i \in 1 .. Len(q) |-> <<q[i].timestamp,
                                       <<q[i].distance \div 100, q[i].distance % 100>>,
                                       q[i].zone, q[i].link_quality>>]

\* C13: the "hist" array of /live and the rows of /download_csv list the
\* stored entries oldest first or newest first, whatever the number of
\* entries written, also after the ring buffer has wrapped.
SnapshotChronological ==
  /\ live_hist(history) \in {AsHist(Recent), AsHist(Reversed(Recent))}
  /\ download_csv(history) \in {AsRows(Recent), AsRows(Reversed(Recent))}

\* C14: logHead is in 0 .. 49 and is the number of entries written modulo
\* 50; the buffer holds exactly the last min(k, 50) of the k entries written,
\* the j-th in slot (j - 1) modulo 50, and no other slot is filled; a call of
\* logEvent writes the slot at logHead only and moves logHead by one modulo 50.
RingBuffer ==
  /\ [](/\ logHead \in 0 .. 49
        /\ logHead = Len(appended) % 50
        /\ \A j \in 1 .. Len(appended) :
              j > Len(appended) - 50 => history[(j - 1) % 50] = appended[j]
        /\ \A i \in 0 .. 49 : i >= Len(appended) => history[i] = EmptySlot)
  /\ [][logHead' # logHead =>
          /\ logHead' = (logHead + 1) % 50
          /\ Len(appended') = Len(appended) + 1
          /\ history'[logHead] = appended'[Len(appended')]
          /\ \A i \in 0 .. 49 : i # logHead => history'[i] = history[i]]_vars

\* C14 witness: the 51st entry has replaced the first one in slot 0
RingWrapped ==
  /\ Len(appended) = 51 /\ logHead = 1
  /\ history[0] = appended[51] /\ history[0] # appended[1]
  /\ history[1] = appended[2]

\* a step that ends a tick of checkSafetyAndRelays (lines 363-404)
RecordStep == loopT.pc = "record" /\ loopT'.pc = "idle"

Plus(cond) == IF cond THEN 1 ELSE 0

\* C15: a tick whose level differs from last_level_stats adds one to the
\* counter of the new level (Stop red_entries, Warn yellow_entries, CommLoss
\* comm_drops, Safe none), leaves the other counters as they are and sets
\* last_level_stats to the new level; no step makes a counter smaller.
CountersOnChange ==
  /\ [][(RecordStep /\ sys.safety_level # stats.last_level_stats) =>
          /\ stats'.red_entries = stats.red_entries + Plus(sys.safety_level = 2)
          /\ stats'.yellow_entries = stats.yellow_entries + Plus(sys.safety_level = 1)
          /\ stats'.comm_drops = stats.comm_drops + Plus(sys.safety_level = 3)
          /\ stats'.last_level_stats = sys.safety_level
          /\ sys'.safety_level = sys.safety_level]_vars
  /\ [][/\ stats'.red_entries >= stats.red_entries
        /\ stats'.yellow_entries >= stats.yellow_entries
        /\ stats'.comm_drops >= stats.comm_drops]_vars

\* C15 witness: a tick has counted a CommLoss after a tick has counted a Stop
CountedLossAfterStop ==
  /\ TickDone /\ loopT.edge /\ sys.safety_level = 3
  /\ stats = [red_entries |-> 1, yellow_entries |-> 0, comm_drops |-> 1,
              last_level_stats |-> 3]

\* the label the specification gives a level
Label(level) ==
  CASE level = 0 -> "SAFE"
    [] level = 1 -> "WARN"
    [] level = 2 -> "DANGER"
    [] level = 3 -> "LOSS"

WellFormed(f) ==
  LET n == DigitRun(f.text, 1)
      point == Len(f.text) >= n + 1 /\ f.text[n + 1] = "."
      m == IF point THEN DigitRun(f.text, n + 2) ELSE 0
      end == IF point THEN n + m + 2 ELSE n + 1
  IN  /\ f.head = "AT+RANGE="
      /\ f.marker
      /\ n >= 1
      /\ point => m >= 1
      /\ Len(f.text) = end
      /\ f.text[end] \in {",", ")"}

\* C17: distance_cm, last_packet_ms and the telemetry change only when
\* uwb_task has taken a well-formed range response whose value is above 0.1;
\* a malformed or partial line and a value of 0.1 or less change none of
\* them, and without a change of last_packet_ms the watchdog is not refreshed.
FramesFiltered ==
  [][(\/ sys'.distance_cm # sys.distance_cm
      \/ sys'.last_packet_ms # sys.last_packet_ms
      \/ outgoingData' # outgoingData
      \/ air' # air
      \/ tx' # tx) =>
        (WellFormed(uwbLine') /\ toFloat(uwbLine'.text) > 10)]_vars

\* exactly one packet for an accepted sample, and none from a tick
OnePacketEach ==
  /\ [](tx \in {0, 1})
  /\ []((uwbT.pc = "read" /\ sys.distance_cm > 0) => tx = 1)
  /\ []((uwbT.pc = "read" /\ sys.distance_cm = 0) => (tx = 0 /\ air = <<>>))
  /\ [][loopT' # loopT => UNCHANGED <<outgoingData, air, tx>>]_vars

\* C18 as stated: every accepted sample gives exactly one call of
\* esp_now_send, with type 0xAA, the distance of the sample and the
\* safety_level that sys holds when the call is made; a tick sends nothing.
TelemetryAtSending ==
  /\ OnePacketEach
  /\ [][tx' # tx =>
          (tx' = 0 \/ air' = [type |-> 170, dist |-> uwbT.d,
                              safety_lvl |-> sys.safety_level])]_vars

\* C18 amended: every accepted sample gives exactly one call of
\* esp_now_send, with type 0xAA, the distance of the sample and the
\* safety_level that sys held when line 425 filled the packet, which a tick
\* may have replaced before the call is made; a tick sends nothing.
TelemetryAsBuilt ==
  /\ OnePacketEach
  /\ [][(uwbT.pc = "build" /\ uwbT'.pc = "send") =>
          outgoingData' = [type |-> 170, dist |-> uwbT.d,
                           safety_lvl |-> sys.safety_level]]_vars
  /\ [][tx' # tx =>
          (tx' = 0 \/ (air' = outgoingData /\ outgoingData' = outgoingData
                       /\ air'.type = 170 /\ air'.dist = uwbT.d
                       /\ air'.dist = sys.distance_cm))]_vars

\* C18 witness: the packet of a sample that a tick has already put in the
\* stop zone is on the air with the level it was built with
PacketSentStale ==
  /\ uwbT.pc = "read" /\ tx = 1
  /\ air = [type |-> 170, dist |-> 480, safety_lvl |-> 1]
  /\ sys.safety_level = 2 /\ sys.distance_cm = 480

\* a step that is lines 334-361 of a tick
EvaluateStep == loopT.pc = "eval" /\ loopT'.pc = "record"

\* C19: last_known_zone is Safe, Warn or Stop, never CommLoss; it changes
\* only in the classifier branch of a tick that found the link alive, which
\* sets it to the level just classified; the failsafe branch of a tick that
\* found the signal lost and the steps of uwb_task leave it as it is.
ZoneWrittenWhenAlive ==
  /\ [](sys.last_known_zone \in {0, 1, 2})
  /\ [][sys'.last_known_zone # sys.last_known_zone =>
          (EvaluateStep /\ ~loopT.signal_lost)]_vars
  /\ [][EvaluateStep =>
          IF loopT.signal_lost
          THEN sys'.last_known_zone = sys.last_known_zone
          ELSE /\ sys'.last_known_zone = sys'.safety_level
               /\ sys'.safety_level = RefLevel(sys.distance_cm, sys.safety_level)]_vars
  /\ [][uwbT' # uwbT => sys'.last_known_zone = sys.last_known_zone]_vars

\* C19 witness: a tick has found the signal lost after Warn and has left
\* last_known_zone at Warn
ZoneKeptOnLoss ==
  /\ TickDone /\ loopT.signal_lost
  /\ sys.safety_level = 3 /\ sys.last_known_zone = 1
  /\ stats.yellow_entries = 1 /\ stats.comm_drops = 1

\* a step that is lines 326-332 of a tick
WatchStep == loopT.pc = "watch" /\ loopT'.pc = "eval"

\* C20: under every interleaving a tick reports signal loss only if more
\* than WATCHDOG_MS have passed since the last accepted sample, and a tick
\* that reads last_packet_ms less than LQ_ZERO_MS after that sample does not
\* compute a link quality of 0; a sample accepted between line 325 and line
\* 326 of a tick does not make that tick report signal loss.
WatchdogTrue ==
  [][WatchStep =>
       /\ loopT'.signal_lost => now - sys.last_packet_ms > WATCHDOG_MS
       /\ sys'.link_quality_pct = 0 => now - sys.last_packet_ms >= LQ_ZERO_MS]_vars

\* C21: after every tick the pattern last written is the pattern of the
\* relay bits; the first tick writes, a tick that changes the pattern writes
\* it, and a tick writes only if the pattern differs from the one last
\* written or more than 500 ms have passed since the last write.
CoilFollowsRelays ==
  /\ [](TickDone => lastCoilStatus = CoilStatus(sys))
  /\ [][RecordStep =>
          /\ lastCoilStatus = 255 => loopT'.wrote # "no"
          /\ CoilStatus(sys') # lastCoilStatus =>
                /\ loopT'.wrote # "no"
                /\ lastCoilStatus' = CoilStatus(sys')
                /\ lastModbusTime' = loopT.now
          /\ loopT'.wrote # "no" =>
                \/ CoilStatus(sys') # lastCoilStatus
                \/ loopT.now - lastModbusTime > 500
          /\ loopT'.wrote = "no" =>
                UNCHANGED <<lastCoilStatus, lastModbusTime>>]_vars

\* C21 witness: a tick in the stop zone has found the pattern written and
\* the last write less than 500 ms old, and has not written
CoilWriteSkipped ==
  /\ TickDone /\ loopT.wrote = "no"
  /\ sys.relay_red /\ lastCoilStatus = 1
  /\ loopT.now - lastModbusTime <= 500

\* C22: as long as no sample has been accepted (distance_cm is 0), the first
\* tick running SETUP_MS after boot, every tick finds the signal lost and
\* the classifier is not applied to the distance 0: safety_level is Safe,
\* relay_green is the only relay a tick sets, no counter is incremented and
\* no log entry is written.
NoSampleStaysSafe ==
  sys.distance_cm = 0 =>
    /\ TickDone => loopT.signal_lost
    /\ sys.safety_level = 0
    /\ sys.last_known_zone = 0
    /\ ~sys.relay_red /\ ~sys.relay_yellow /\ ~sys.relay_health
    /\ TickDone => sys.relay_green
    /\ stats = [red_entries |-> 0, yellow_entries |-> 0, comm_drops |-> 0,
                last_level_stats |-> 0]
    /\ logHead = 0
    /\ appended = <<>>

====
